---- MODULE Spec2Model ----
(***************************************************************************)
(* State-machine model of src/src/pages/PokemonList.tsx (the component     *)
(* PokemonList, second definition, lines 239-489): the search text and its *)
(* input handlers, the infinite query that feeds the paged list, the       *)
(* one-shot background run fetchAllPokemon that feeds the search dataset,  *)
(* the IntersectionObserver callback, the memo filteredPokemon and the     *)
(* scroll-to-top effect.                                                   *)
(*                                                                         *)
(* Strings are sequences of one-character strings, so that toLowerCase,    *)
(* trim, includes and parseInt are computed and not assumed.               *)
(*                                                                         *)
(* Granularity: one action is one handler (or one settled await) together  *)
(* with the render and the effects that follow it.  The values the hooks   *)
(* return (hasNextPage, isFetchingNextPage, searchTerm) are read from the  *)
(* current state: the observer effect (lines 305-320) re-subscribes the    *)
(* callback with fresh values after every render that changes them.        *)
(***************************************************************************)
EXTENDS Integers, Sequences, FiniteSets, TLC

\* ------------------------------------------------------------------ bounds
MaxTermLen == 2
MaxPages == 2

\* ------------------------------------------------------- program constants
PageSize == 20
BatchSize == 100
MaxTotal == 500

\* ------------------------------------------------------------ string model
Chars == {"a", "A", "2", " "}

\* What one input event can make of the text s of the input element: one
\* character typed or deleted at either end, or everything deleted.
InputValues(s) ==
  { v \in {Append(s, c) : c \in Chars} \cup {<<c>> \o s : c \in Chars}
          \cup (IF s = <<>> THEN {} ELSE {Tail(s), SubSeq(s, 1, Len(s) - 1), <<>>}) :
      Len(v) <= MaxTermLen }

ToLowerChar(c) == IF c = "A" THEN "a" ELSE c

toLowerCase(s) == [i \in 1..Len(s) |-> ToLowerChar(s[i])]

IsWhiteSpace(c) == c = " "

RECURSIVE TrimStart(_)
TrimStart(s) ==
  IF s # <<>> /\ IsWhiteSpace(Head(s)) THEN TrimStart(Tail(s)) ELSE s

RECURSIVE TrimEnd(_)
TrimEnd(s) ==
  IF s # <<>> /\ IsWhiteSpace(s[Len(s)]) THEN TrimEnd(SubSeq(s, 1, Len(s) - 1)) ELSE s

trim(s) == TrimEnd(TrimStart(s))

\* String.prototype.indexOf: the first position (0-based) at or after `from`
\* where needle occurs in hay, -1 when there is none.
RECURSIVE indexOf(_, _, _)
indexOf(hay, needle, from) ==
  IF from + Len(needle) > Len(hay) THEN -1
  ELSE IF SubSeq(hay, from + 1, from + Len(needle)) = needle THEN from
  ELSE indexOf(hay, needle, from + 1)

includes(hay, needle) == indexOf(hay, needle, 0) # -1

IsDigit(c) == c \in {"0", "1", "2"}

DigitValue(c) == CASE c = "0" -> 0 [] c = "1" -> 1 [] c = "2" -> 2

\* parseInt(s) in radix 10: the value of the longest prefix of digits.  The
\* number field of an entry is a non-empty string of digits, so the NaN case
\* (no leading digit) does not arise in the model.
RECURSIVE ParseDigits(_, _)
ParseDigits(s, acc) ==
  IF s = <<>> \/ ~IsDigit(Head(s)) THEN acc
  ELSE ParseDigits(Tail(s), acc * 10 + DigitValue(Head(s)))

parseInt(s) == ParseDigits(s, 0)

\* ------------------------------------------------- entries and the network
\* PokemonWithJapaneseName: name (canonical), japaneseName (localized) and
\* number (numeric string).
Pokemon(number, name, japaneseName) ==
  [number |-> number, name |-> name, japaneseName |-> japaneseName]

P2 == Pokemon(<<"2">>, <<"a">>, <<"A">>)
P1 == Pokemon(<<"1">>, <<"2">>, <<"a", "A">>)
P01 == Pokemon(<<"0", "1">>, <<"a">>, <<"2", "a">>)

\* The remote catalog is fixed for a session and unknown to the program: one
\* of Catalogs.  fetchPokemonListWithJapaneseNames(offset, limit) resolves to
\* the results the catalog holds for that window.
Catalogs == {"A", "B"}

fetchPokemonListWithJapaneseNames(cat, offset, limit) ==
  IF ((offset \div limit) % 2 = 0) = (cat = "A") THEN <<P2, P1>> ELSE <<P01>>

\* The count the catalog source reports for ?limit=1.
CountChoices == {0, 150, 1302}

NoClamp(a, b) == a

Min(a, b) == IF a <= b THEN a ELSE b

\* ------------------------------------------------------------------- state
VARIABLES
  catalog,             \* the remote catalog of this session
  mounted,             \* the first commit has run its effects
  searchTerm,          \* useState('') : the text the filter and the observer read
  composing,           \* the input element is inside an IME composition
  allPokemonForSearch, \* useState([]) : the dataset the search reads
  status,              \* useInfiniteQuery: "pending" | "success" | "error"
  pages,               \* useInfiniteQuery: data.pages, each [results, next]
  pageParams,          \* useInfiniteQuery: data.pageParams
  isFetchingNextPage,  \* useInfiniteQuery
  pageInFlight,        \* page params of the queryFn calls not yet settled
  pageRequestLog,      \* history: page params of all queryFn calls, in order
  initialData,         \* history: the body the count request resolved to
  run,                 \* the activation of fetchAllPokemon: pc, totalCount, offset, allPokemon
  bulkRuns,            \* history: how many times fetchAllPokemon() was called
  bulkRequests,        \* history: offsets of the batches requested, in order
  bulkResponses,       \* history: [offset, results] of the batches resolved, in order
  prevSearchTermRef,   \* useRef('')
  fromSearch,          \* history: the text the last change replaced was a search
  event                \* history: the last handler, its input and what it called

vars == <<catalog, mounted, searchTerm, composing, allPokemonForSearch, status, pages,
          pageParams, isFetchingNextPage, pageInFlight, pageRequestLog, initialData,
          run, bulkRuns, bulkRequests, bulkResponses, prevSearchTermRef, fromSearch,
          event>>

Event(name, isIntersecting, fetchNext, scrollTo) ==
  [name |-> name, isIntersecting |-> isIntersecting, fetchNext |-> fetchNext,
   scrollTo |-> scrollTo]

Frame(pc, totalCount, offset, allPokemon) ==
  [pc |-> pc, totalCount |-> totalCount, offset |-> offset, allPokemon |-> allPokemon]

Init ==
  /\ catalog \in Catalogs
  /\ mounted = FALSE
  /\ searchTerm = <<>>
  /\ composing = FALSE
  /\ allPokemonForSearch = <<>>
  /\ status = "pending"
  /\ pages = <<>>
  /\ pageParams = <<>>
  /\ isFetchingNextPage = FALSE
  /\ pageInFlight = <<>>
  /\ pageRequestLog = <<>>
  /\ initialData = [count |-> 0]
  /\ run = Frame("idle", 0, 0, <<>>)
  /\ bulkRuns = 0
  /\ bulkRequests = <<>>
  /\ bulkResponses = <<>>
  /\ prevSearchTermRef = <<>>
  /\ fromSearch = FALSE
  /\ event = Event("init", FALSE, FALSE, FALSE)

\* ------------------------------------------------------- derived (render)
isLoading == status = "pending"

getNextPageParamOffByOne(lastPage, allPages) ==
  IF lastPage.next THEN (Len(allPages) - 1) * PageSize ELSE -1

\* getNextPageParam: undefined is modelled as -1.
getNextPageParam(lastPage, allPages) ==
  IF lastPage.next THEN Len(allPages) * PageSize ELSE -1

hasNextPage == pages # <<>> /\ getNextPageParam(pages[Len(pages)], pages) # -1

RECURSIVE flatMapResults(_)
flatMapResults(ps) ==
  IF ps = <<>> THEN <<>> ELSE Head(ps).results \o flatMapResults(Tail(ps))

\* The predicate of the first definition of the component (lines 91-97): the
\* canonical name and the number match too.
matchesNameOrNumber(pokemon, searchLower) ==
  \/ includes(toLowerCase(pokemon.japaneseName), searchLower)
  \/ includes(toLowerCase(pokemon.name), searchLower)
  \/ includes(pokemon.number, trim(searchTerm))

matchesName(pokemon, searchLower) ==
  includes(toLowerCase(pokemon.japaneseName), searchLower)

RECURSIVE filter(_, _)
filter(list, searchLower) ==
  IF list = <<>> THEN <<>>
  ELSE IF matchesName(Head(list), searchLower)
       THEN <<Head(list)>> \o filter(Tail(list), searchLower)
       ELSE filter(Tail(list), searchLower)

compareNumber(a, b) == parseInt(a.number) - parseInt(b.number)

\* Array.prototype.sort is stable: x goes after every element that does not
\* compare greater than it.
RECURSIVE insertSorted(_, _)
insertSorted(sorted, x) ==
  IF sorted = <<>> THEN <<x>>
  ELSE IF compareNumber(Head(sorted), x) > 0 THEN <<x>> \o sorted
  ELSE <<Head(sorted)>> \o insertSorted(Tail(sorted), x)

RECURSIVE sortFrom(_, _)
sortFrom(sorted, rest) ==
  IF rest = <<>> THEN sorted
  ELSE sortFrom(insertSorted(sorted, Head(rest)), Tail(rest))

\* The filter of the first definition of the component: no sort.
unsorted(list) == list

sort(list) == sortFrom(<<>>, list)

filteredNoModeSwitch ==
  sortFrom(<<>>, filter(allPokemonForSearch, trim(toLowerCase(searchTerm))))

filteredPokemon ==
  IF trim(searchTerm) = <<>>
  THEN flatMapResults(pages)
  ELSE sort(filter(allPokemonForSearch, trim(toLowerCase(searchTerm))))

\* The component renders the inputs and the list only after the two early
\* returns; the load-more sentinel only when the trimmed text is empty.
inputRendered == mounted /\ ~isLoading /\ status # "error"

sentinelRendered == inputRendered /\ trim(searchTerm) = <<>>

\* ----------------------------------------------------------------- effects
\* An effect runs after the first commit and after every commit where its
\* dependency list differs from the previous one.
bulkEffectDepsOnSearch == <<searchTerm>>

bulkEffectDeps == <<>>

shouldScrollNoPrev(currentSearch, prevSearch) == currentSearch # <<>>

\* if (currentSearch && currentSearch !== prevSearch) window.scrollTo(...)
shouldScroll(currentSearch, prevSearch) ==
  currentSearch # <<>> /\ currentSearch # prevSearch

\* What the computation of filteredPokemon calls sort on, were it the state
\* array itself: Array.prototype.sort sorts its receiver in place.
afterMemoSortInPlace(list, term) ==
  IF trim(term) = <<>> THEN list ELSE sort(list)

\* The content of the state array list after the computation of
\* filteredPokemon for the text term: filter returns a new array and sort is
\* called on that one, so the state array keeps its content.
afterMemo(list, term) == list

\* The commit that ends every action: frame is the activation of
\* fetchAllPokemon as the action leaves it, memoInvalid tells that data or
\* allPokemonForSearch got a new identity (useMemo then returns a new
\* filteredPokemon, a dependency of the scroll effect), nextBulk is the array
\* allPokemonForSearch holds as the action leaves it.
Commit(name, isIntersecting, fetchNext, frame, memoInvalid, nextBulk) ==
  LET firstCommit == ~mounted
      bulkEffectRuns == firstCommit \/ bulkEffectDeps' # bulkEffectDeps
      scrollEffectRuns == firstCommit \/ memoInvalid \/ searchTerm' # searchTerm
      currentSearch == trim(searchTerm')
      scrollTo == scrollEffectRuns /\ shouldScroll(currentSearch, prevSearchTermRef)
  IN /\ mounted' = TRUE
     /\ allPokemonForSearch' =
          IF scrollEffectRuns THEN afterMemo(nextBulk, searchTerm') ELSE nextBulk
     /\ IF bulkEffectRuns
        THEN /\ run' = Frame("count", 0, 0, <<>>)
             /\ bulkRuns' = bulkRuns + 1
        ELSE /\ run' = frame
             /\ bulkRuns' = bulkRuns
     /\ prevSearchTermRef' = IF scrollEffectRuns THEN currentSearch ELSE prevSearchTermRef
     /\ event' = Event(name, isIntersecting, fetchNext, scrollTo)

\* ----------------------------------------------------------------- actions
\* First commit: useInfiniteQuery fetches the first page (initialPageParam 0)
\* and the effect with the empty dependency list calls fetchAllPokemon().
Mount ==
  /\ ~mounted
  /\ pageInFlight' = <<0>>
  /\ pageRequestLog' = <<0>>
  /\ UNCHANGED <<catalog, initialData, searchTerm, composing, status, pages,
                 pageParams, isFetchingNextPage, bulkRequests, bulkResponses,
                 fromSearch>>
  /\ Commit("mount", FALSE, FALSE, run, FALSE, allPokemonForSearch)

handleSearchChange(value) ==
  /\ inputRendered
  /\ value # searchTerm
  /\ searchTerm' = value
  /\ fromSearch' = (trim(searchTerm) # <<>>)
  /\ UNCHANGED <<catalog, initialData, composing, status, pages,
                 pageParams, isFetchingNextPage, pageInFlight, pageRequestLog,
                 bulkRequests, bulkResponses>>
  /\ Commit("handleSearchChange", FALSE, FALSE, run, FALSE, allPokemonForSearch)

handleCompositionStart ==
  /\ inputRendered
  /\ ~composing
  /\ composing' = TRUE
  /\ UNCHANGED <<catalog, initialData, searchTerm, status, pages, pageParams,
                 isFetchingNextPage, pageInFlight, pageRequestLog, bulkRequests,
                 bulkResponses, fromSearch>>
  /\ Commit("handleCompositionStart", FALSE, FALSE, run, FALSE, allPokemonForSearch)

handleCompositionEnd(value) ==
  /\ inputRendered
  /\ composing
  /\ composing' = FALSE
  /\ searchTerm' = value
  /\ fromSearch' = IF value # searchTerm THEN trim(searchTerm) # <<>> ELSE fromSearch
  /\ UNCHANGED <<catalog, initialData, status, pages, pageParams,
                 isFetchingNextPage, pageInFlight, pageRequestLog, bulkRequests,
                 bulkResponses>>
  /\ Commit("handleCompositionEnd", FALSE, FALSE, run, FALSE, allPokemonForSearch)

shouldFetchNextNoFlightCheck(isIntersecting) ==
  isIntersecting /\ hasNextPage /\ searchTerm = <<>>

shouldFetchNextNoSearchCheck(isIntersecting) ==
  isIntersecting /\ hasNextPage /\ ~isFetchingNextPage

\* The guard of the IntersectionObserver callback.
shouldFetchNext(isIntersecting) ==
  isIntersecting /\ hasNextPage /\ ~isFetchingNextPage /\ searchTerm = <<>>

fetchNextPage ==
  LET pageParam == getNextPageParam(pages[Len(pages)], pages)
  IN /\ pageInFlight' = Append(pageInFlight, pageParam)
     /\ pageRequestLog' = Append(pageRequestLog, pageParam)
     /\ isFetchingNextPage' = TRUE

Intersect(isIntersecting) ==
  /\ sentinelRendered
  /\ IF shouldFetchNext(isIntersecting)
     THEN fetchNextPage
     ELSE UNCHANGED <<pageInFlight, pageRequestLog, isFetchingNextPage>>
  /\ UNCHANGED <<catalog, initialData, searchTerm, composing, status, pages,
                 pageParams, bulkRequests, bulkResponses, fromSearch>>
  /\ Commit("IntersectionObserver", isIntersecting, shouldFetchNext(isIntersecting),
            run, FALSE, allPokemonForSearch)

\* The queryFn of the page in flight resolves.  The catalog is finite: the
\* page that fills the list up to MaxPages reports no continuation.
PageResolved(next) ==
  /\ pageInFlight # <<>>
  /\ Len(pages) + 1 >= MaxPages => ~next
  /\ pages' = Append(pages,
         [results |-> fetchPokemonListWithJapaneseNames(catalog, Head(pageInFlight), PageSize),
          next |-> next])
  /\ pageParams' = Append(pageParams, Head(pageInFlight))
  /\ pageInFlight' = Tail(pageInFlight)
  /\ isFetchingNextPage' = FALSE
  /\ status' = "success"
  /\ UNCHANGED <<catalog, initialData, searchTerm, composing, pageRequestLog,
                 bulkRequests, bulkResponses, fromSearch>>
  /\ Commit("pageResolved", FALSE, FALSE, run, TRUE, allPokemonForSearch)

\* The queryFn of the page in flight fails for good (after the library's own
\* retries): the query keeps its data and goes to status "error".
PageRejected ==
  /\ pageInFlight # <<>>
  /\ pageInFlight' = Tail(pageInFlight)
  /\ isFetchingNextPage' = FALSE
  /\ status' = "error"
  /\ UNCHANGED <<catalog, initialData, searchTerm, composing, pages, pageParams,
                 pageRequestLog, bulkRequests, bulkResponses, fromSearch>>
  /\ Commit("pageRejected", FALSE, FALSE, run, FALSE, allPokemonForSearch)

pushFront(allPokemon, results) == results \o allPokemon

\* allPokemon.push(...batchData.results)
push(allPokemon, results) == allPokemon \o results

\* A loop that calls setAllPokemonForSearch after every batch.
LoopHeadPublishEach(name, f) ==
  IF f.offset < f.totalCount
  THEN /\ bulkRequests' = Append(bulkRequests, f.offset)
       /\ Commit(name, FALSE, FALSE, Frame("batch", f.totalCount, f.offset, f.allPokemon),
                 TRUE, f.allPokemon)
  ELSE /\ UNCHANGED bulkRequests
       /\ Commit(name, FALSE, FALSE, Frame("done", f.totalCount, f.offset, f.allPokemon),
                 TRUE, f.allPokemon)

\* The head of the for loop of fetchAllPokemon, entered with frame f: request
\* the batch at f.offset, or leave the loop and publish the accumulator.
LoopHead(name, f) ==
  IF f.offset < f.totalCount
  THEN /\ bulkRequests' = Append(bulkRequests, f.offset)
       /\ Commit(name, FALSE, FALSE, Frame("batch", f.totalCount, f.offset, f.allPokemon),
                 FALSE, allPokemonForSearch)
  ELSE /\ UNCHANGED bulkRequests
       /\ Commit(name, FALSE, FALSE, Frame("done", f.totalCount, f.offset, f.allPokemon),
                 TRUE, f.allPokemon)

\* await fetch(...?limit=1) and await json() resolve with the reported count.
CountResolved(count) ==
  /\ run.pc = "count"
  /\ initialData' = [count |-> count]
  /\ UNCHANGED <<catalog, searchTerm, composing, status, pages, pageParams,
                 isFetchingNextPage, pageInFlight, pageRequestLog, bulkResponses,
                 fromSearch>>
  /\ LoopHead("countResolved", Frame("loop", Min(initialData'.count, MaxTotal), 0, run.allPokemon))

\* await fetchPokemonListWithJapaneseNames(offset, batchSize) resolves.
batchData == fetchPokemonListWithJapaneseNames(catalog, run.offset, BatchSize)

BatchResolved ==
  /\ run.pc = "batch"
  /\ bulkResponses' = Append(bulkResponses, [offset |-> run.offset, results |-> batchData])
  /\ UNCHANGED <<catalog, initialData, searchTerm, composing, status, pages, pageParams,
                 isFetchingNextPage, pageInFlight, pageRequestLog, fromSearch>>
  /\ LoopHead("batchResolved",
              Frame("loop", run.totalCount, run.offset + BatchSize,
                    push(run.allPokemon, batchData)))

\* A catch that swallows the rejection and awaits the same call again.
BulkRejectedRetry ==
  /\ run.pc \in {"count", "batch"}
  /\ UNCHANGED <<catalog, initialData, searchTerm, composing, status, pages,
                 pageParams, isFetchingNextPage, pageInFlight, pageRequestLog,
                 bulkRequests, bulkResponses, fromSearch>>
  /\ Commit("bulkRejected", FALSE, FALSE, run, FALSE, allPokemonForSearch)

\* Any await of fetchAllPokemon rejects: the catch block logs and returns.
BulkRejected ==
  /\ run.pc \in {"count", "batch"}
  /\ UNCHANGED <<catalog, initialData, searchTerm, composing, status, pages,
                 pageParams, isFetchingNextPage, pageInFlight, pageRequestLog,
                 bulkRequests, bulkResponses, fromSearch>>
  /\ Commit("bulkRejected", FALSE, FALSE,
            Frame("failed", run.totalCount, run.offset, run.allPokemon), FALSE,
            allPokemonForSearch)

Next ==
  \/ Mount
  \/ \E value \in InputValues(searchTerm) : handleSearchChange(value)
  \/ handleCompositionStart
  \/ \E value \in InputValues(searchTerm) \cup {searchTerm} : handleCompositionEnd(value)
  \/ \E isIntersecting \in BOOLEAN : Intersect(isIntersecting)
  \/ \E next \in BOOLEAN : PageResolved(next)
  \/ PageRejected
  \/ \E count \in CountChoices : CountResolved(count)
  \/ BatchResolved
  \/ BulkRejected

Spec == Init /\ [][Next]_vars

\* The first commit happens, and every network call of fetchAllPokemon
\* settles: the await it is suspended at resolves or rejects.
bulkSettles ==
  \/ \E count \in CountChoices : CountResolved(count)
  \/ BatchResolved
  \/ BulkRejected

FairSpec == Spec /\ WF_vars(Mount) /\ WF_vars(bulkSettles)

\* ------------------------------------------------------------------ claims
Contains(hay, needle) ==
  \E k \in 0..(Len(hay) - Len(needle)) :
    \A m \in 1..Len(needle) : hay[k + m] = needle[m]

Needle == toLowerCase(trim(searchTerm))

Matches(E) == Contains(toLowerCase(E.japaneseName), Needle)

searchMode == trim(searchTerm) # <<>>

Numeric(E) == parseInt(E.number)

\* C1: at most one page fetch is in flight; every page request ever issued is
\* the one in flight, a page of the cache or the one that failed; an observer
\* callback that called fetchNextPage found no fetch in flight.
C1_OneFetchInFlight ==
  /\ Len(pageInFlight) <= 1
  /\ isFetchingNextPage => Len(pageInFlight) = 1
  /\ Len(pageRequestLog) =
       Len(pages) + Len(pageInFlight) + (IF status = "error" THEN 1 ELSE 0)
  /\ (event.name = "IntersectionObserver" /\ event.fetchNext) =>
       /\ pageInFlight = <<pageRequestLog[Len(pageRequestLog)]>>
       /\ Len(pageRequestLog) = Len(pages) + 1

\* An intersection signal arrived while a page fetch was in flight and was
\* ignored.
C1_Witness ==
  /\ event.name = "IntersectionObserver"
  /\ event.isIntersecting
  /\ ~event.fetchNext
  /\ isFetchingNextPage
  /\ hasNextPage
  /\ searchTerm = <<>>

\* C2: an observer callback that runs while the search text is non-empty never
\* calls fetchNextPage, and no page is requested while it is non-empty.
C2_ScrollSuspension ==
  [][searchTerm # <<>> =>
       /\ pageRequestLog' = pageRequestLog
       /\ pageInFlight' = pageInFlight \/ pageInFlight' = Tail(pageInFlight)
       /\ event'.name = "IntersectionObserver" => (~event'.fetchNext /\ pages' = pages)]_vars

\* An intersection signal arrived with a non-empty text, more data available
\* and no fetch in flight, and it did not call fetchNextPage.
C2_Witness ==
  /\ event.name = "IntersectionObserver"
  /\ event.isIntersecting
  /\ ~event.fetchNext
  /\ searchTerm # <<>>
  /\ hasNextPage
  /\ ~isFetchingNextPage

\* C3: in search mode an entry of the search dataset is in the visible list
\* if and only if its lowercased japaneseName contains the lowercased, trimmed
\* text; the visible list holds nothing else.
C3_SearchCorrectness ==
  searchMode =>
    LET visible == filteredPokemon
    IN /\ \A i \in 1..Len(allPokemonForSearch) :
            (\E j \in 1..Len(visible) : visible[j] = allPokemonForSearch[i])
              <=> Matches(allPokemonForSearch[i])
       /\ \A j \in 1..Len(visible) :
            \E i \in 1..Len(allPokemonForSearch) : visible[j] = allPokemonForSearch[i]

\* A search that shows some entries and leaves out entries whose canonical
\* name and whose number contain the text.
C3_Witness ==
  /\ searchMode
  /\ filteredPokemon # <<>>
  /\ \E i \in 1..Len(allPokemonForSearch) :
       /\ ~Matches(allPokemonForSearch[i])
       /\ Contains(toLowerCase(allPokemonForSearch[i].name), Needle)
  /\ \E i \in 1..Len(allPokemonForSearch) :
       /\ ~Matches(allPokemonForSearch[i])
       /\ Contains(allPokemonForSearch[i].number, trim(searchTerm))

\* C4 as stated: in search mode, for every two places i, j of the visible
\* list, the entry at i precedes the entry at j if and only if its number is
\* not greater.
C4_SortIff ==
  searchMode =>
    LET visible == filteredPokemon
    IN \A i, j \in 1..Len(visible) :
         i # j => ((i < j) <=> (Numeric(visible[i]) <= Numeric(visible[j])))

MatchedInOrder == SelectSeq(allPokemonForSearch, Matches)

WithNumber(list, n) == SelectSeq(list, LAMBDA E : Numeric(E) = n)

\* C4 amended: in search mode, of two visible entries with different numbers
\* the one with the smaller number comes first, and the entries of one number
\* keep the order they have in the search dataset.
C4_SortedStable ==
  searchMode =>
    LET visible == filteredPokemon
        matched == MatchedInOrder
    IN /\ \A i, j \in 1..Len(visible) :
            Numeric(visible[i]) < Numeric(visible[j]) => i < j
       /\ \A n \in {Numeric(matched[i]) : i \in 1..Len(matched)} :
            WithNumber(visible, n) = WithNumber(matched, n)

\* A search whose result is not in dataset order and holds two different
\* entries of one number.
C4_Witness ==
  /\ searchMode
  /\ filteredPokemon # MatchedInOrder
  /\ \E i, j \in 1..Len(filteredPokemon) :
       /\ i < j
       /\ filteredPokemon[i] # filteredPokemon[j]
       /\ Numeric(filteredPokemon[i]) = Numeric(filteredPokemon[j])

RECURSIVE ResultsBefore(_)
ResultsBefore(p) == IF p = 0 THEN 0 ELSE ResultsBefore(p - 1) + Len(pages[p].results)

\* C5: whenever the trimmed text is empty, the visible list is the results of
\* the pages, page after page in fetch order.
C5_ModeSwitch ==
  trim(searchTerm) = <<>> =>
    LET visible == filteredPokemon
    IN /\ Len(visible) = ResultsBefore(Len(pages))
       /\ \A p \in 1..Len(pages) : \A k \in 1..Len(pages[p].results) :
            visible[ResultsBefore(p - 1) + k] = pages[p].results[k]

\* The text was cleared after a search, with two pages cached and a search
\* dataset that differs from them.
C5_Witness ==
  /\ trim(searchTerm) = <<>>
  /\ fromSearch
  /\ event.name \in {"handleSearchChange", "handleCompositionEnd"}
  /\ Len(pages) >= 2
  /\ allPokemonForSearch # <<>>
  /\ allPokemonForSearch # filteredPokemon

RECURSIVE ConcatResults(_)
ConcatResults(responses) ==
  IF responses = <<>> THEN <<>>
  ELSE Head(responses).results \o ConcatResults(Tail(responses))

\* C6: the batches are requested at offsets 0, 100, 200, ... one at a time,
\* batch N+1 only after the results of batch N were appended; the accumulator
\* is the concatenation of the resolved batches in request order, and so is
\* the search dataset once the run has published it.
C6_AppendOrder ==
  /\ \A i \in 1..Len(bulkRequests) : bulkRequests[i] = (i - 1) * BatchSize
  /\ Len(bulkResponses) <= Len(bulkRequests)
  /\ Len(bulkRequests) <= Len(bulkResponses) + 1
  /\ \A i \in 1..Len(bulkResponses) : bulkResponses[i].offset = bulkRequests[i]
  /\ run.pc = "batch" <=> Len(bulkRequests) = Len(bulkResponses) + 1 /\ run.pc # "failed"
  /\ run.allPokemon = ConcatResults(bulkResponses)
  /\ run.pc = "done" => allPokemonForSearch = ConcatResults(bulkResponses)

\* A run of five batches has published its dataset while a page fetch was
\* still in flight.
C6_Witness ==
  /\ run.pc = "done"
  /\ Len(bulkResponses) = 5
  /\ allPokemonForSearch = ConcatResults(bulkResponses)
  /\ pageInFlight # <<>>

\* C7 as stated: searchTerm changes only on a commit event, that is in
\* handleCompositionEnd or in a handleSearchChange outside a composition.
C7_CommitOnly ==
  [][searchTerm' # searchTerm =>
       \/ event'.name = "handleCompositionEnd"
       \/ event'.name = "handleSearchChange" /\ ~composing]_vars

\* C8 as stated: window.scrollTo is called exactly in the steps that take the
\* trimmed text from empty to non-empty.
C8_OncePerSearch ==
  [][event'.scrollTo <=> (trim(searchTerm) = <<>> /\ trim(searchTerm') # <<>>)]_vars

\* C8 amended: window.scrollTo is called exactly in the steps that change the
\* trimmed text to a non-empty value: at the start of a search and at every
\* later change of the trimmed text, never when only page or bulk data arrive
\* or when the trimmed text stays the same.
C8_ScrollOnTextChange ==
  [][event'.scrollTo <=>
       (trim(searchTerm') # <<>> /\ trim(searchTerm') # trim(searchTerm))]_vars

\* window.scrollTo was called for a change of the text of a running search.
C8_Witness ==
  /\ event.scrollTo
  /\ fromSearch
  /\ allPokemonForSearch # <<>>
  /\ pages # <<>>

\* C9 as stated: after a batch failed, the results of the batches that
\* resolved before it are in the search dataset.
C9_PartialKept ==
  (run.pc = "failed" /\ bulkResponses # <<>>) =>
    allPokemonForSearch = ConcatResults(bulkResponses)

\* C10: fetchAllPokemon is called once, at the first commit, and no batch
\* offset is requested twice.
C10_RunOnce ==
  /\ bulkRuns = (IF mounted THEN 1 ELSE 0)
  /\ \A i, j \in 1..Len(bulkRequests) : bulkRequests[i] = bulkRequests[j] => i = j
  /\ run.pc = "idle" <=> ~mounted

\* The run has finished and, since, the text was changed during a search,
\* two pages were fetched and an intersection signal arrived.
C10_Witness ==
  /\ bulkRuns = 1
  /\ run.pc = "done"
  /\ allPokemonForSearch # <<>>
  /\ fromSearch
  /\ Len(pages) >= 2
  /\ event.name = "IntersectionObserver"

\* C11 as stated: after a page fetch failed, the cache is as it was before
\* the request, no fetch is in flight and, the text being empty, an
\* intersection signal can arrive and calls fetchNextPage for the offset that
\* failed.
C11_RetryReachable ==
  (event.name = "pageRejected" /\ searchTerm = <<>> /\ pages # <<>>) =>
    /\ Len(pageParams) = Len(pages)
    /\ Len(pageRequestLog) = Len(pages) + 1
    /\ pageInFlight = <<>>
    /\ ~isFetchingNextPage
    /\ sentinelRendered
    /\ shouldFetchNext(TRUE)
    /\ getNextPageParam(pages[Len(pages)], pages) = pageRequestLog[Len(pageRequestLog)]

\* C12: the k-th page of the cache was fetched at offset 20 * (k - 1) and the
\* next request goes to 20 * k, so no offset is fetched twice; a page of the
\* cache never changes and pages are only added at the end; once the last
\* page reports no continuation, no page is requested any more.
C12_PagedCursor ==
  /\ [](/\ Len(pageParams) = Len(pages)
        /\ \A k \in 1..Len(pageParams) : pageParams[k] = PageSize * (k - 1)
        /\ \A k \in 1..Len(pageRequestLog) : pageRequestLog[k] = PageSize * (k - 1)
        /\ \A k \in 1..(Len(pages) - 1) : pages[k].next
        /\ hasNextPage => getNextPageParam(pages[Len(pages)], pages) = PageSize * Len(pages))
  /\ [][/\ Len(pages') >= Len(pages)
        /\ SubSeq(pages', 1, Len(pages)) = pages
        /\ SubSeq(pageParams', 1, Len(pageParams)) = pageParams
        /\ (pages # <<>> /\ ~pages[Len(pages)].next) =>
             (pageRequestLog' = pageRequestLog /\ pages' = pages)]_vars

\* Two pages were fetched, the second reports no continuation, and an
\* intersection signal that arrived after it requested nothing.
C12_Witness ==
  /\ pageParams = <<0, PageSize>>
  /\ ~pages[Len(pages)].next
  /\ event.name = "IntersectionObserver"
  /\ event.isIntersecting
  /\ ~event.fetchNext
  /\ searchTerm = <<>>
  /\ pageRequestLog = pageParams

\* C13: the target of the run is the reported count, or 500 when the count is
\* greater; batches are requested at 0, 100, 200, ... below the target only,
\* so at most five of them and none at 500 or above; a run that finishes has
\* requested every batch below the target.
C13_BulkTarget ==
  /\ run.totalCount = (IF initialData.count > 500 THEN 500 ELSE initialData.count)
  /\ Len(bulkRequests) <= 5
  /\ \A i \in 1..Len(bulkRequests) :
       /\ bulkRequests[i] = 100 * (i - 1)
       /\ bulkRequests[i] < run.totalCount
       /\ bulkRequests[i] < 500
  /\ run.pc = "done" => 100 * Len(bulkRequests) >= run.totalCount

\* The source reported more than 500 entries and the run finished after the
\* five batches below 500.
C13_Witness ==
  /\ initialData.count > 500
  /\ run.pc = "done"
  /\ run.totalCount = 500
  /\ bulkRequests = <<0, 100, 200, 300, 400>>

bulkTerminal == run.pc \in {"done", "failed"}

\* C14: when the first commit happens and every network call of the run
\* settles, the run reaches a terminal state, done or failed, and once there
\* the run and the dataset it published never change again.
C14_BulkTerminates ==
  /\ <>bulkTerminal
  /\ [][bulkTerminal =>
          (run' = run /\ allPokemonForSearch' = allPokemonForSearch)]_vars
  /\ [][(run'.pc = "done" /\ run.pc # "done") => run.pc \in {"count", "batch"}]_vars

\* The run finished all five batches and the session went on: text was
\* typed after it.
C14_Witness ==
  /\ run.pc = "done"
  /\ Len(bulkResponses) = 5
  /\ event.name = "handleSearchChange"
  /\ searchMode

\* C15 as stated: whenever the visible list is the paged cache (the trimmed
\* text is empty), more data is available and an intersection signal has
\* just arrived, a page fetch is in flight: the one already running or the
\* one the signal started.
C15_ModesAgree ==
  (/\ event.name = "IntersectionObserver"
   /\ event.isIntersecting
   /\ trim(searchTerm) = <<>>
   /\ hasNextPage) => isFetchingNextPage

\* C16: computing the visible list changes neither the search dataset nor
\* the paged cache: the dataset changes only in the step where the run
\* publishes its accumulator, to exactly that accumulator, the cache only
\* when a page fetch resolves, and no input handler or observer callback
\* changes either.
C16_DerivationReadOnly ==
  [][/\ allPokemonForSearch' # allPokemonForSearch =>
          /\ event'.name \in {"countResolved", "batchResolved"}
          /\ run.pc # "done" /\ run'.pc = "done"
     /\ (run'.pc = "done" /\ mounted) => allPokemonForSearch' = run'.allPokemon
     /\ (pages' # pages \/ pageParams' # pageParams) => event'.name = "pageResolved"
     /\ event'.name \in {"handleSearchChange", "handleCompositionStart",
                         "handleCompositionEnd", "IntersectionObserver"} =>
          UNCHANGED <<allPokemonForSearch, pages, pageParams>>]_vars

\* After several changes of the text a search shows a sorted result that is
\* not in dataset order, and the dataset is still the concatenation of the
\* batches as they were received.
C16_Witness ==
  /\ searchMode
  /\ fromSearch
  /\ event.name = "handleSearchChange"
  /\ filteredPokemon # MatchedInOrder
  /\ allPokemonForSearch = ConcatResults(bulkResponses)
  /\ pages # <<>>

\* C17: the search dataset is empty until the run finishes and from then on
\* it is the concatenation of all the batches below the target; it never
\* holds only some of the batches, it never changes once it is non-empty, and
\* it is set only in the step that finishes the run.
C17_AtomicPublication ==
  /\ [](/\ run.pc # "done" => allPokemonForSearch = <<>>
        /\ run.pc = "done" =>
             /\ allPokemonForSearch = ConcatResults(bulkResponses)
             /\ Len(bulkResponses) = Len(bulkRequests)
             /\ BatchSize * Len(bulkResponses) >= run.totalCount)
  /\ [][allPokemonForSearch' # allPokemonForSearch =>
          (allPokemonForSearch = <<>> /\ run.pc = "batch" /\ run'.pc = "done")]_vars

\* A search runs while the run has received batches and waits for the next
\* one: the dataset is still empty and the search shows nothing.
C17_Witness ==
  /\ run.pc = "batch"
  /\ Len(bulkResponses) >= 2
  /\ searchMode
  /\ allPokemonForSearch = <<>>
  /\ filteredPokemon = <<>>

====
